---- MODULE Spec2Model ----
(***************************************************************************)
(* A model of native/fsNotifier/linux/inotify.c: the watch table, the      *)
(* recursive directory walker (walk_tree / add_watch / rm_watch), the      *)
(* entry points watch and unwatch, and the event translator                *)
(* (process_inotify_input / process_inotify_event).                        *)
(*                                                                         *)
(* Paths are sequences of characters, so that the code's strcmp / strncmp  *)
(* comparisons are computed on characters and not on path components.      *)
(* A pointer to a watch_node is modelled by the node's wd (0 is the NULL   *)
(* pointer): a node is allocated and freed together with its table entry.  *)
(***************************************************************************)
EXTENDS Integers, Sequences, FiniteSets, TLC

(***************************************************************************)
(* Bounds of the model.                                                    *)
(***************************************************************************)
\* the largest watch descriptor the modelled kernel hands out
MaxWd == 8
\* the largest number of calls of watch, unwatch and process_inotify_input in one run
MaxCalls == 2
\* the largest number of events one read() of the inotify descriptor returns
MaxBatch == 2
\* the largest number of injected system-call failures during one call
MaxFaults == 1
\* the ghost counter of ENOSPC failures saturates here
MaxCount == 2
\* the largest number of alias paths of one node
MaxAliases == 2

(***************************************************************************)
(* Outcome codes (fsnotifier.h), as inotify.c uses them.                   *)
(***************************************************************************)
ERR_IGNORE == -1
ERR_CONTINUE == -2
ERR_ABORT == -3
ERR_MISSING == -4

(***************************************************************************)
(* Strings.                                                                *)
(***************************************************************************)
NoPath == <<>>

\* the character at position i of a C string; past its end, the terminator
CharAt(s, i) == IF i <= Len(s) THEN s[i] ELSE "NUL"

\* strncmp(s1, s2, n) == 0
strncmp_eq(s1, s2, n) == \A i \in 1..n : CharAt(s1, i) = CharAt(s2, i)

\* strcmp(s1, s2) == 0
strcmp_eq(s1, s2) == s1 = s2

\* path_buf[path_len] = '/'; memcpy(path_buf + path_len + 1, name, ...)
join(path, name) == path \o <<"/">> \o name

(***************************************************************************)
(* The file system the program runs on: a directory /r with the            *)
(* subdirectories a and ab (one name a prefix of the other), a regular     *)
(* file /r/f, a directory /r/a/c, and /r/ab/c, a second hard link to the   *)
(* directory /r/a/c.  /l is a symbolic link to /r/a/c.  /x never exists.   *)
(***************************************************************************)
N_a == <<"a">>
N_ab == <<"a", "b">>
N_c == <<"c">>
N_f == <<"f">>
P_r == <<"/", "r">>
P_ra == join(P_r, N_a)
P_rab == join(P_r, N_ab)
P_rac == join(P_ra, N_c)
P_rabc == join(P_rab, N_c)
P_rf == join(P_r, N_f)
P_l == <<"/", "l">>
P_x == <<"/", "x">>

AllPaths == {P_r, P_ra, P_rab, P_rac, P_rabc, P_rf, P_l}

Inodes == 1..5

\* the inode a path resolves to (stat and inotify_add_watch follow links)
Inode(p) ==
  CASE p = P_r -> 1
    [] p = P_ra -> 2
    [] p = P_rab -> 3
    [] p = P_rac -> 4
    [] p = P_rabc -> 4
    [] p = P_l -> 4
    [] OTHER -> 5

\* realpath(3) of an existing path: /l resolves to /r/a/c, a hard link to itself
Real(p) == IF p = P_l THEN P_rac ELSE p

\* st_mode of an existing path
S_ISREG(p) == p = P_rf
S_ISDIR(p) == p # P_rf

\* the d_type readdir reports for an entry
d_type(p) ==
  CASE p = P_rf -> "DT_REG"
    [] p = P_rabc -> "DT_UNKNOWN"
    [] OTHER -> "DT_DIR"

\* q is an entry of directory p
IsEntryOf(q, p) ==
  /\ Len(q) > Len(p) + 1
  /\ SubSeq(q, 1, Len(p)) = p
  /\ q[Len(p) + 1] = "/"
  /\ \A i \in (Len(p) + 2)..Len(q) : q[i] # "/"

\* the name of entry q of directory p (entry->d_name)
d_name(q, p) == SubSeq(q, Len(p) + 2, Len(q))

\* the file systems the model starts from and moves between: closed under
\* parents, and the symbolic link resolves
FsOk(fs) ==
  /\ \A q \in fs : \A p \in AllPaths : IsEntryOf(q, p) => p \in fs
  /\ P_l \in fs => P_rac \in fs

(***************************************************************************)
(* System-call failures.  A fault <<path, kind>> makes the named call on   *)
(* the named path fail; a call on a path that does not exist fails with    *)
(* ENOENT by itself.                                                       *)
(***************************************************************************)
AddFaults == {"add_ENOSPC", "add_EACCES", "add_EIO"}
OpenFaults == {"open_EACCES", "open_EMFILE"}
FaultKinds == AddFaults \cup OpenFaults

\* the sets of at most n faults on the paths of ps with the kinds of ks
RECURSIVE FaultSets(_, _, _)
FaultSets(ps, ks, n) ==
  IF n = 0 THEN {{}}
  ELSE LET fewer == FaultSets(ps, ks, n - 1) IN
       fewer \cup {A \cup {x} : A \in fewer, x \in ps \X ks}

(***************************************************************************)
(* The kernel's side of the inotify descriptor: kwd maps an inode to its   *)
(* watch descriptor (0: not watched), nextWd is the next fresh descriptor. *)
(***************************************************************************)
\* inotify_add_watch(inotify_fd, path_buf, EVENT_MASK): the descriptor, or -1 and errno
inotify_add_watch(S, fs, F, path) ==
  LET fail(e) == [wd |-> -1, errno |-> e, kwd |-> S.kwd, nextWd |-> S.nextWd] IN
  IF path \notin fs THEN fail("ENOENT")
  ELSE IF <<path, "add_EACCES">> \in F THEN fail("EACCES")
  ELSE IF <<path, "add_EIO">> \in F THEN fail("EIO")
  ELSE IF S.kwd[Inode(path)] # 0
         THEN [wd |-> S.kwd[Inode(path)], errno |-> "", kwd |-> S.kwd, nextWd |-> S.nextWd]
  ELSE IF <<path, "add_ENOSPC">> \in F THEN fail("ENOSPC")
  ELSE [wd |-> S.nextWd, errno |-> "",
        kwd |-> [S.kwd EXCEPT ![Inode(path)] = S.nextWd],
        nextWd |-> S.nextWd + 1]

\* inotify_rm_watch(inotify_fd, wd): the kernel forgets the descriptor (a failure is only logged)
inotify_rm_watch(kwd, wd) == [i \in DOMAIN kwd |-> IF kwd[i] = wd THEN 0 ELSE kwd[i]]

\* opendir(path_buf): "" on success, else errno
opendir(fs, F, path) ==
  IF path \notin fs THEN "ENOENT"
  ELSE IF ~S_ISDIR(path) THEN "ENOTDIR"
  ELSE IF <<path, "open_EACCES">> \in F THEN "EACCES"
  ELSE IF <<path, "open_EMFILE">> \in F THEN "EMFILE"
  ELSE ""

\* realpath(path, buf): NULL (NoPath) when the path cannot be resolved
realpath(fs, path) == IF path \in fs THEN Real(path) ELSE NoPath

\* the entries readdir returns for an open directory, in the order ord lists them,
\* that pass the d_type filter of walk_tree (a DT_UNKNOWN entry is stat-ed)
dir_entries(fs, ord, path) ==
  SelectSeq(ord, LAMBDA q :
    /\ q \in fs
    /\ IsEntryOf(q, path)
    /\ \/ d_type(q) = "DT_DIR"
       \/ d_type(q) = "DT_UNKNOWN" /\ S_ISDIR(q))

(***************************************************************************)
(* The watch table (util.c is not part of the sources: a map from watch    *)
(* descriptor to node, as the specification describes it).                 *)
(***************************************************************************)
NULL == [wd |-> 0, parent |-> 0, kids |-> <<>>, paths |-> <<>>]

table_get(t, wd) == IF wd \in DOMAIN t THEN t[wd] ELSE NULL

table_put(t, wd, node) == IF wd \in DOMAIN t THEN [t EXCEPT ![wd] = node] ELSE t

\* array_push(a, x)
array_push(a, x) == Append(a, x)

\* array_put(a, i, x), i counted from 0 as in the code
array_put(a, i, x) == [a EXCEPT ![i + 1] = x]

(***************************************************************************)
(* watch_limit_reached, add_watch, rm_watch, walk_tree.                    *)
(* S is the state of the process: watches, kwd, nextWd, limit_reached,     *)
(* msgs (the MSG_WATCH_LIMIT messages sent), nospc (ghost: the ENOSPC      *)
(* failures so far), crashed, cb (the callbacks of the current call) and   *)
(* log (the add_watch calls of the current call).                          *)
(***************************************************************************)
Sat(n) == IF n < MaxCount THEN n + 1 ELSE MaxCount

watch_limit_reachedM(S) ==
  [S EXCEPT !.limit_reached = TRUE, !.msgs = Sat(S.msgs)]

watch_limit_reached(S) ==
  IF ~S.limit_reached
    THEN [S EXCEPT !.limit_reached = TRUE, !.msgs = Sat(S.msgs)]
    ELSE S

\* the first slot (from 1) of kids that holds wd, 0 if none
FirstSlot(kids, wd) ==
  IF \E i \in 1..Len(kids) : kids[i] = wd
    THEN CHOOSE i \in 1..Len(kids) : kids[i] = wd /\ \A j \in 1..(i - 1) : kids[j] # wd
    ELSE 0

RECURSIVE rm_watch(_, _, _)
RECURSIVE rm_kids(_, _, _)

\* the loop of rm_watch over node->kids, from slot i
rm_kidsM(S, kids, i) == S

rm_kids(S, kids, i) ==
  IF i > Len(kids) THEN S
  ELSE IF kids[i] # 0 THEN rm_kids(rm_watch(S, kids[i], FALSE), kids, i + 1)
  ELSE rm_kids(S, kids, i + 1)

\* rm_watch for a handle that has the node node (lines 219-243)
rm_node(S, wd, update_parent, node) ==
  LET S1 == [S EXCEPT !.kwd = inotify_rm_watch(S.kwd, node.wd)]
      S2 == rm_kids(S1, node.kids, 1)
      par == table_get(S2.watches, node.parent)
      slot == FirstSlot(par.kids, wd)
      S3 == IF update_parent /\ node.parent # 0 /\ slot # 0
              THEN [S2 EXCEPT !.watches[node.parent].kids = array_put(par.kids, slot - 1, 0)]
              ELSE S2
  IN [S3 EXCEPT !.watches = table_put(S3.watches, wd, NULL)]

\* rm_watch without the test for a missing node: it reads through NULL
rm_watchM(S, wd, update_parent) ==
  IF table_get(S.watches, wd) = NULL THEN [S EXCEPT !.crashed = TRUE]
  ELSE rm_node(S, wd, update_parent, table_get(S.watches, wd))

rm_watch(S, wd, update_parent) ==
  IF table_get(S.watches, wd) = NULL THEN S
  ELSE rm_node(S, wd, update_parent, table_get(S.watches, wd))

\* the least element of a non-empty set of integers
Min(X) == CHOOSE x \in X : \A y \in X : x <= y

\* the outcome of add_watch recorded in the log of the current call
Logged(S, path, id) == [S EXCEPT !.log = Append(S.log, [path |-> path, id |-> id])]

\* the node add_watch allocates for a handle that has none (lines 179-188)
new_nodeM(wd, parent, path) == [wd |-> wd, parent |-> 0, kids |-> <<>>, paths |-> <<path>>]

new_node(wd, parent, path) == [wd |-> wd, parent |-> parent, kids |-> <<>>, paths |-> <<path>>]

\* the table after the new node wd is entered in the child collection of its
\* parent, if it has one (lines 190-200)
link_kidM(t, parent, wd) == t

link_kid(t, parent, wd) ==
  IF parent # 0 THEN [t EXCEPT ![parent].kids = array_push(@, wd)] ELSE t

\* add_watch after its call of inotify_add_watch, r the outcome of that call
add_watch_wd(S, fs, path, parent, r) ==
  LET S0 == [S EXCEPT !.kwd = r.kwd, !.nextWd = r.nextWd,
                      !.nospc = IF r.errno = "ENOSPC" THEN Sat(S.nospc) ELSE S.nospc]
      wd == r.wd
      node == table_get(S0.watches, wd)
      normalized_path_buff == realpath(fs, path)
      \* the aliases at which the loop over node->paths returns
      hits == {i \in 1..Len(node.paths) :
                 /\ ~strcmp_eq(node.paths[i], path)
                 /\ \/ realpath(fs, node.paths[i]) = NoPath
                    \/ normalized_path_buff = NoPath
                    \/ strcmp_eq(realpath(fs, node.paths[i]), normalized_path_buff)}
      first == Min(hits)
      newnode == new_node(wd, parent, path)
      withkid == link_kid(S0.watches, parent, wd)
  IN
  IF wd < 0 THEN
    IF r.errno \in {"EACCES", "ENOENT"} THEN [S |-> Logged(S0, path, ERR_IGNORE), id |-> ERR_IGNORE]
    ELSE IF r.errno = "ENOSPC"
      THEN [S |-> Logged(watch_limit_reached(S0), path, ERR_CONTINUE), id |-> ERR_CONTINUE]
    ELSE [S |-> Logged(S0, path, ERR_ABORT), id |-> ERR_ABORT]
  ELSE IF node # NULL THEN
    IF node.wd # wd THEN [S |-> Logged(S0, path, ERR_ABORT), id |-> ERR_ABORT]
    ELSE IF hits # {} THEN
      IF realpath(fs, node.paths[first]) = NoPath \/ normalized_path_buff = NoPath
        THEN [S |-> Logged(S0, path, ERR_ABORT), id |-> ERR_ABORT]
        ELSE [S |-> Logged(S0, path, ERR_IGNORE), id |-> ERR_IGNORE]
    ELSE [S |-> Logged([S0 EXCEPT !.watches[wd].paths = array_push(@, path)], path, wd),
          id |-> wd]
  ELSE [S |-> Logged([S0 EXCEPT !.watches = table_put(withkid, wd, newnode)], path, wd),
        id |-> wd]

add_watch(S, fs, F, path, parent) ==
  add_watch_wd(S, fs, path, parent, inotify_add_watch(S, fs, F, path))

\* the test of walk_tree on the outcome of a recursive call (line 306)
is_fatal_subdirM(subdir_id) == subdir_id < 0 /\ subdir_id # ERR_IGNORE /\ subdir_id # ERR_CONTINUE

is_fatal_subdir(subdir_id) == subdir_id < 0 /\ subdir_id # ERR_IGNORE

\* the mount check of walk_tree (lines 248-254)
crosses_mount(path, mounts) == \E mount \in mounts : strncmp_eq(path, mount, Len(mount))

RECURSIVE walk_tree(_, _, _, _, _, _, _, _)
RECURSIVE walk_entries(_, _, _, _, _, _, _, _)

\* walk_tree after its call of add_watch, a the outcome of that call (lines 270-314)
walk_subdirs(a, fs, F, ord, path, recursive, mounts) ==
  IF ~recursive THEN a
  ELSE IF a.id < 0 THEN a
  ELSE walk_entries(a.S, fs, F, ord, a.id, path, dir_entries(fs, ord, path), mounts)

\* the readdir loop after the recursive call for an entry, sub the outcome of
\* that call, rest the entries not read yet (lines 305-310)
walk_subdir_done(sub, fs, F, ord, id, path, rest, mounts) ==
  IF is_fatal_subdir(sub.id)
    THEN [S |-> rm_watch(sub.S, id, TRUE), id |-> sub.id]
    ELSE walk_entries(sub.S, fs, F, ord, id, path, rest, mounts)

\* the readdir loop of walk_tree for the node id over the remaining entries;
\* the parent passed down is table_get(watches, id)
walk_entries(S, fs, F, ord, id, path, entries, mounts) ==
  IF entries = <<>> THEN [S |-> S, id |-> id]
  ELSE walk_subdir_done(
         walk_tree(S, fs, F, ord, Head(entries),
                   IF table_get(S.watches, id) # NULL THEN id ELSE 0, TRUE, mounts),
         fs, F, ord, id, path, Tail(entries), mounts)

walk_tree(S, fs, F, ord, path, parent, recursive, mounts) ==
  IF crosses_mount(path, mounts) THEN [S |-> S, id |-> ERR_IGNORE]
  ELSE IF recursive /\ opendir(fs, F, path) # "" THEN
    IF opendir(fs, F, path) \in {"EACCES", "ENOENT", "ENOTDIR"}
      THEN [S |-> S, id |-> ERR_IGNORE]
      ELSE [S |-> S, id |-> ERR_CONTINUE]
  ELSE walk_subdirs(add_watch(S, fs, F, path, parent), fs, F, ord, path, recursive, mounts)

(***************************************************************************)
(* watch: root is the argument string, with an optional leading '|' and    *)
(* an optional trailing '/'.  staterr is the errno of a failing stat ("":  *)
(* none injected; a missing path fails with ENOENT by itself).             *)
(***************************************************************************)
StatErrs == {"EACCES", "ELOOP", "ENAMETOOLONG", "ENOTDIR", "EIO"}

\* stat(root, &st): "" on success, else errno
stat(fs, root, staterr) ==
  LET bare == IF root[Len(root)] = "/" THEN SubSeq(root, 1, Len(root) - 1) ELSE root IN
  IF bare \notin fs THEN "ENOENT"
  ELSE IF root[Len(root)] = "/" /\ ~S_ISDIR(bare) THEN "ENOTDIR"
  ELSE staterr

\* the outcome of watch when stat fails with errno e (lines 331-343)
stat_failureM(e) ==
  IF e = "ENOENT" THEN ERR_MISSING
  ELSE IF e \in {"EACCES", "ELOOP", "ENAMETOOLONG"} THEN ERR_CONTINUE
  ELSE ERR_ABORT

stat_failure(e) ==
  IF e = "ENOENT" THEN ERR_MISSING
  ELSE IF e \in {"EACCES", "ELOOP", "ENAMETOOLONG", "ENOTDIR"} THEN ERR_CONTINUE
  ELSE ERR_ABORT

\* the recursive flag after the test of the root's type (lines 345-347)
root_recursiveM(path, recursive) == recursive

root_recursive(path, recursive) == IF S_ISREG(path) THEN FALSE ELSE recursive

watch(S, fs, F, ord, root0, mounts, staterr) ==
  LET recursive0 == root0[1] # "|"
      root == IF root0[1] = "|" THEN Tail(root0) ELSE root0
      path_len == IF root[Len(root)] = "/" THEN Len(root) - 1 ELSE Len(root)
      path == SubSeq(root, 1, path_len)
      e == stat(fs, root, staterr)
      recursive == root_recursive(path, recursive0)
  IN
  IF e # "" THEN [S |-> S, id |-> stat_failure(e)]
  ELSE IF ~S_ISREG(path) /\ ~S_ISDIR(path) THEN [S |-> S, id |-> ERR_IGNORE]
  ELSE walk_tree(S, fs, F, ord, path, 0, recursive, mounts)

unwatch(S, id) == rm_watch(S, id, TRUE)

(***************************************************************************)
(* Events.  An event is [wd, mask, name]: mask is the set of the bits set  *)
(* in event->mask, name is empty when event->len = 0.  The kernel sets one *)
(* event-type bit per event, so the create and the delete branch of        *)
(* process_inotify_event never both run for one event.                     *)
(***************************************************************************)
\* ub is what the dereference of a NULL kid (line 398) does: "crash", the
\* process dies, or "skip", the read yields a size other than 1 and the slot
\* is passed over
\* the test of the delete branch on the kid's alias count (line 397)
single_aliasM(kid) == TRUE

single_alias(kid) == Len(kid.paths) = 1

RECURSIVE scan_kids(_, _, _, _, _)

\* the loop over node->kids of the delete branch (lines 396-408), from slot i (from 1)
scan_kids(S, ub, nodewd, path, i) ==
  LET kids == table_get(S.watches, nodewd).kids
      kid == table_get(S.watches, kids[i])
      wp == kid.paths[1]
  IN
  IF i > Len(kids) THEN S
  ELSE IF kid = NULL THEN
    IF ub = "crash" THEN [S EXCEPT !.crashed = TRUE]
    ELSE scan_kids(S, ub, nodewd, path, i + 1)
  ELSE IF single_alias(kid) THEN
    IF strncmp_eq(path, wp, Len(wp))
      THEN LET S1 == rm_watch(S, kid.wd, FALSE) IN
           [S1 EXCEPT !.watches[nodewd].kids = array_put(@, i - 1, 0)]
      ELSE scan_kids(S, ub, nodewd, path, i + 1)
  ELSE scan_kids(S, ub, nodewd, path, i + 1)

\* the outcomes of the walk started by a create event that stop the batch (line 390)
is_fatal_resultM(result) == result < 0 /\ result # ERR_IGNORE

is_fatal_result(result) == result < 0 /\ result # ERR_IGNORE /\ result # ERR_CONTINUE

RECURSIVE event_aliases(_, _, _, _, _, _, _)

\* the path of the event for alias i of node (lines 374-383)
event_path(node, event, i) ==
  IF event.name # <<>> THEN join(node.paths[i], event.name) ELSE node.paths[i]

\* the step of the loop over node->paths to the alias after i, S3 the state
\* after the body for alias i
next_alias(S3, fs, F, ord, ub, event, i) ==
  IF S3.crashed THEN [S |-> S3, ok |-> FALSE]
  ELSE event_aliases(S3, fs, F, ord, ub, event, i + 1)

\* the body of the loop for alias i after the callback (lines 387-409): S1 is
\* the state after the callback, w the outcome of walk_tree for path (used by
\* the create branch only)
alias_branches(S1, fs, F, ord, ub, event, i, path, w) ==
  LET is_dir == "IN_ISDIR" \in event.mask
      created == is_dir /\ event.mask \cap {"IN_CREATE", "IN_MOVED_TO"} # {}
      deleted == is_dir /\ event.mask \cap {"IN_DELETE", "IN_MOVED_FROM"} # {}
      S2 == IF created THEN w.S ELSE S1
  IN
  IF created /\ is_fatal_result(w.id) THEN [S |-> w.S, ok |-> FALSE]
  ELSE next_alias(IF deleted THEN scan_kids(S2, ub, event.wd, path, 1) ELSE S2,
                  fs, F, ord, ub, event, i)

\* the body of the loop for alias i from the callback on (line 385), S1 the
\* state after the callback
alias_body(S1, fs, F, ord, ub, event, i, path) ==
  alias_branches(S1, fs, F, ord, ub, event, i, path,
                 walk_tree(S1, fs, F, ord, path, event.wd, TRUE, {}))

\* the loop over node->paths of process_inotify_event (lines 373-410), from alias i (from 1)
event_aliases(S, fs, F, ord, ub, event, i) ==
  LET node == table_get(S.watches, event.wd)
      path == event_path(node, event, i)
  IN
  IF i > Len(node.paths) THEN [S |-> S, ok |-> TRUE]
  ELSE alias_body([S EXCEPT !.cb = Append(S.cb, [path |-> path, mask |-> event.mask])],
                  fs, F, ord, ub, event, i, path)

process_inotify_event(S, fs, F, ord, ub, event) ==
  IF table_get(S.watches, event.wd) = NULL THEN [S |-> S, ok |-> TRUE]
  ELSE event_aliases(S, fs, F, ord, ub, event, 1)

skipped_eventM(event) == "IN_IGNORED" \in event.mask

\* the events the loop of process_inotify_input passes over (lines 428-434)
skipped_event(event) ==
  \/ "IN_IGNORED" \in event.mask
  \/ "IN_Q_OVERFLOW" \in event.mask

RECURSIVE process_events(_, _, _, _, _, _)

\* the loop after process_inotify_event has handled an event, r its outcome,
\* rest the events of the buffer not handled yet (lines 433-435)
event_done(r, fs, F, ord, ub, rest) ==
  IF ~r.ok THEN r
  ELSE process_events(r.S, fs, F, ord, ub, rest)

\* the loop of process_inotify_input over the events of the buffer (lines 424-439)
process_events(S, fs, F, ord, ub, events) ==
  IF events = <<>> THEN [S |-> S, ok |-> TRUE]
  ELSE IF skipped_event(Head(events))
    THEN process_events(S, fs, F, ord, ub, Tail(events))
  ELSE event_done(process_inotify_event(S, fs, F, ord, ub, Head(events)),
                  fs, F, ord, ub, Tail(events))

\* readerr: the read of the descriptor fails (len < 0)
process_inotify_input(S, fs, F, ord, ub, events, readerr) ==
  IF readerr THEN [S |-> S, ok |-> FALSE]
  ELSE process_events(S, fs, F, ord, ub, events)

(***************************************************************************)
(* The state: the file system, the kernel's watches, the globals of        *)
(* inotify.c (watches, limit_reached), the messages sent, and op, the      *)
(* record of the last call: its arguments, its result, the add_watch calls *)
(* it made (log) and the callbacks it issued (cb).                         *)
(***************************************************************************)
VARIABLES fs, dirorder, kwd, nextWd, watches, limit_reached, msgs, nospc, crashed, op, calls

vars == <<fs, dirorder, kwd, nextWd, watches, limit_reached, msgs, nospc, crashed, op, calls>>

Wds == 1..MaxWd

NoOp == [name |-> "init", root |-> <<>>, mounts |-> {}, wd |-> 0, events |-> <<>>,
         faults |-> {}, staterr |-> "", ret |-> 0, log |-> <<>>, cb |-> <<>>]

\* the state of the process at the start of a call
Cur == [watches |-> watches, kwd |-> kwd, nextWd |-> nextWd,
        limit_reached |-> limit_reached, msgs |-> msgs, nospc |-> nospc,
        crashed |-> crashed, cb |-> <<>>, log |-> <<>>]

\* the state of the process at the end of a call, o the record of the call
Commit(S, o) ==
  /\ calls' = calls + 1
  /\ S.nextWd <= MaxWd + 1
  /\ \A w \in Wds : Len(S.watches[w].paths) <= MaxAliases
  /\ watches' = S.watches
  /\ kwd' = S.kwd
  /\ nextWd' = S.nextWd
  /\ limit_reached' = S.limit_reached
  /\ msgs' = S.msgs
  /\ nospc' = S.nospc
  /\ crashed' = S.crashed
  /\ op' = [o EXCEPT !.log = S.log, !.cb = S.cb]
  /\ fs' = fs
  /\ dirorder' = dirorder

\* the orders in which readdir may list the entries of the directories
Orders == {<<P_ra, P_rab, P_rac, P_rabc, P_rf>>, <<P_rf, P_rabc, P_rac, P_rab, P_ra>>}

\* init_inotify succeeded: an empty table, nothing watched; fs0 is the file system
InitWith(fs0) ==
  /\ fs = fs0
  /\ dirorder \in Orders
  /\ kwd = [i \in Inodes |-> 0]
  /\ nextWd = 1
  /\ watches = [w \in Wds |-> NULL]
  /\ limit_reached = FALSE
  /\ msgs = 0
  /\ nospc = 0
  /\ crashed = FALSE
  /\ op = NoOp
  /\ calls = 0

\* a call watch(root, mounts)
DoWatch(roots, mountsets, faultsets, staterrs) ==
  /\ ~crashed
  /\ calls < MaxCalls
  /\ \E root \in roots, mounts \in mountsets, F \in faultsets, se \in staterrs :
       LET r == watch(Cur, fs, F, dirorder, root, mounts, se) IN
       Commit(r.S, [NoOp EXCEPT !.name = "watch", !.root = root, !.mounts = mounts,
                                !.faults = F, !.staterr = se, !.ret = r.id])

\* a call unwatch(id)
DoUnwatch(ids) ==
  /\ ~crashed
  /\ calls < MaxCalls
  /\ \E id \in ids :
       Commit(unwatch(Cur, id), [NoOp EXCEPT !.name = "unwatch", !.wd = id])

\* the sequences of at most n elements of E
RECURSIVE SeqsUpTo(_, _)
SeqsUpTo(E, n) ==
  IF n = 0 THEN {<<>>}
  ELSE LET shorter == SeqsUpTo(E, n - 1) IN
       shorter \cup {Append(b, e) : b \in {x \in shorter : Len(x) = n - 1}, e \in E}

\* the event the kernel queues for happening h = [dir, mask, name] in a
\* directory it watches: it carries the directory's watch descriptor
EventOf(h) == [wd |-> kwd[Inode(h.dir)], mask |-> h.mask, name |-> h.name]

\* the batches one read may return when the happenings of hs occur: at least
\* one event, each for a directory the kernel watches
Batches(hs) ==
  SeqsUpTo({EventOf(h) : h \in {x \in hs : x.dir \in fs /\ kwd[Inode(x.dir)] # 0}}, MaxBatch)
    \ {<<>>}

\* the end of a call process_inotify_input(): r is its outcome when the
\* dereference of a NULL kid kills the process, r2 its outcome when it does not
Processed(o, r, r2) ==
  \/ Commit(r.S, [o EXCEPT !.ret = IF r.ok THEN 1 ELSE 0])
  \/ /\ r.S.crashed
     /\ Commit(r2.S, [o EXCEPT !.ret = IF r2.ok THEN 1 ELSE 0])

\* a call process_inotify_input() that reads the events of a batch
DoProcess(hs, faultsets, readerrs) ==
  /\ ~crashed
  /\ calls < MaxCalls
  /\ \E events \in Batches(hs), F \in faultsets, readerr \in readerrs :
       Processed([NoOp EXCEPT !.name = "process_inotify_input", !.events = events, !.faults = F],
                 process_inotify_input(Cur, fs, F, dirorder, "crash", events, readerr),
                 process_inotify_input(Cur, fs, F, dirorder, "skip", events, readerr))

\* the environment creates the entry p (mkdir, link, or a move into the tree)
FsAdd(ps) ==
  /\ \E p \in ps \ fs :
       /\ FsOk(fs \cup {p})
       /\ fs' = fs \cup {p}
  /\ UNCHANGED <<dirorder, kwd, nextWd, watches, limit_reached, msgs, nospc, crashed, op, calls>>

\* the environment removes the entry p (rmdir, unlink); the kernel drops the
\* watch of an inode that has no link left
FsDel(ps) ==
  /\ \E p \in ps \cap fs :
       /\ FsOk(fs \ {p})
       /\ fs' = fs \ {p}
       /\ kwd' = [i \in Inodes |->
                    IF i = Inode(p) /\ ~\E q \in fs \ {p} : Inode(q) = i THEN 0 ELSE kwd[i]]
  /\ UNCHANGED <<dirorder, nextWd, watches, limit_reached, msgs, nospc, crashed, op, calls>>

(***************************************************************************)
(* The inputs.                                                             *)
(***************************************************************************)
M_dircreate == {"IN_CREATE", "IN_ISDIR"}
M_dirmovedto == {"IN_MOVED_TO", "IN_ISDIR"}
M_dirdelete == {"IN_DELETE", "IN_ISDIR"}
M_dirmovedfrom == {"IN_MOVED_FROM", "IN_ISDIR"}
M_create == {"IN_CREATE"}
M_deleteself == {"IN_DELETE_SELF"}
M_ignored == {"IN_IGNORED"}
M_overflow == {"IN_Q_OVERFLOW"}

\* something happens to entry name of directory dir
Happening(dir, mask, name) == [dir |-> dir, mask |-> mask, name |-> name]

\* "|" prepended to a root: the request for a non-recursive watch
Flat(path) == <<"|">> \o path

(***************************************************************************)
(* SpecWalk: watch and unwatch calls on a file system that does not        *)
(* change, with injected failures of inotify_add_watch, opendir and stat.  *)
(***************************************************************************)
FS_plain == {P_r, P_ra, P_rab, P_rac, P_rf}
FS_link == FS_plain \cup {P_rabc}

WalkFaults == FaultSets({P_ra, P_rac}, {"add_ENOSPC", "add_EIO", "add_EACCES", "open_EMFILE"}, MaxFaults)

\* watch("/r") with failing registrations below the root
WatchFaulty == DoWatch({P_r}, {{}}, WalkFaults, {""})

\* watch("/r") with /r/a declared a mount point
WatchMounts == DoWatch({P_r}, {{P_ra}}, {{}}, {""})

\* watch("/r") with a failing stat
WatchStat == DoWatch({P_r}, {{}}, {{}}, StatErrs)

\* watch of the other roots: non-recursive, a regular file, a missing path
WatchRoots == DoWatch({Flat(P_r), P_rf, Flat(P_rf), P_x}, {{}}, {{}}, {""})

Unwatch == DoUnwatch(Wds)

InitWalk == \E fs0 \in {FS_plain, FS_link} : InitWith(fs0)

NextWalk == WatchFaulty \/ WatchMounts \/ WatchStat \/ WatchRoots \/ Unwatch

SpecWalk == InitWalk /\ [][NextWalk]_vars

(***************************************************************************)
(* Notions the properties are stated with.                                 *)
(***************************************************************************)
\* the handles that have a node in table t
InTable(t) == {w \in DOMAIN t : t[w] # NULL}

\* the handles whose node in t has the alias p
NodesOf(t, p) == {w \in InTable(t) : \E i \in 1..Len(t[w].paths) : t[w].paths[i] = p}

\* directory p is d itself or lies below d in the directory hierarchy
AtOrBelow(p, d) ==
  \/ p = d
  \/ Len(p) > Len(d) /\ SubSeq(p, 1, Len(d)) = d /\ p[Len(d) + 1] = "/"

Below(p, d) == p # d /\ AtOrBelow(p, d)

\* the directories of fs at or below root
DirsUnder(f, root) == {p \in f : S_ISDIR(p) /\ AtOrBelow(p, root)}

\* the directory that holds entry q
DirOf(q) == CHOOSE p \in AllPaths : IsEntryOf(q, p)

\* the step is a call of watch, unwatch or process_inotify_input
IsCall == calls' # calls

\* the last call was watch("/r") with no mount points and no injected failure
PlainWatchOf(o, root) ==
  o.name = "watch" /\ o.root = root /\ o.mounts = {} /\ o.faults = {} /\ o.staterr = ""

C5_Step ==
  (/\ IsCall
   /\ PlainWatchOf(op', P_r)
   /\ P_rabc \notin fs
   /\ \A p \in DirsUnder(fs, P_r) : kwd[Inode(p)] = 0)
  =>
  LET added == InTable(watches') \ InTable(watches)
      dirs == DirsUnder(fs, P_r)
  IN /\ Cardinality(added) = Cardinality(dirs)
     /\ Cardinality(dirs) = Cardinality(dirs \ {P_r}) + 1
     /\ \A p \in dirs :
          \E w \in added :
            /\ watches'[w].paths = <<p>>
            /\ watches'[w].wd = w
            /\ IF p = P_r
                 THEN watches'[w].parent = 0 /\ op'.ret = w
                 ELSE /\ watches'[w].parent \in added
                      /\ watches'[watches'[w].parent].paths = <<DirOf(p)>>
                      /\ Cardinality({k \in 1..Len(watches'[watches'[w].parent].kids) :
                                        watches'[watches'[w].parent].kids[k] = w}) = 1

C5_NodesMirrorTree == [][C5_Step]_vars

\* a recursive watch registered the whole tree: /r/a/c at depth two below the root
C5_Witness ==
  /\ PlainWatchOf(op, P_r)
  /\ op.ret > 0
  /\ Cardinality(InTable(watches)) = 4
  /\ \E w \in InTable(watches) :
       /\ watches[w].paths = <<P_rac>>
       /\ watches[watches[w].parent].paths = <<P_ra>>
       /\ watches[watches[watches[w].parent].parent].paths = <<P_r>>

(***************************************************************************)
(* C7: when the stat of the root fails, watch returns Missing for ENOENT,  *)
(* Continue for EACCES, ELOOP, ENAMETOOLONG and ENOTDIR, Abort for any     *)
(* other errno, and the watch table and the kernel's registrations are     *)
(* what they were before the call.                                         *)
(***************************************************************************)
C7_Step ==
  (IsCall /\ op'.name = "watch" /\ (op'.root = P_x \/ op'.staterr # "")) =>
    /\ op'.root = P_x => op'.ret = ERR_MISSING
    /\ op'.root # P_x /\ op'.staterr \in {"EACCES", "ELOOP", "ENAMETOOLONG", "ENOTDIR"}
         => op'.ret = ERR_CONTINUE
    /\ op'.root # P_x /\ op'.staterr = "EIO" => op'.ret = ERR_ABORT
    /\ watches' = watches
    /\ kwd' = kwd
    /\ nextWd' = nextWd
    /\ op'.log = <<>>

C7_StatFailure == [][C7_Step]_vars

\* a watch whose stat failed with ENOTDIR while the table held nodes
C7_Witness ==
  /\ op.name = "watch"
  /\ op.staterr = "ENOTDIR"
  /\ op.ret = ERR_CONTINUE
  /\ InTable(watches) # {}

(***************************************************************************)
(* C8: watching the regular file /r/f, not watched before, with or         *)
(* without the '|' that asks for a non-recursive watch, adds exactly one   *)
(* node (no parent, no children, the root path as its only alias),         *)
(* returns its handle and makes no other registration (no descent).        *)
(***************************************************************************)
C8_Step ==
  (/\ IsCall
   /\ (PlainWatchOf(op', P_rf) \/ PlainWatchOf(op', Flat(P_rf)))
   /\ kwd[Inode(P_rf)] = 0)
  =>
  LET added == InTable(watches') \ InTable(watches) IN
  /\ op'.ret > 0
  /\ added = {op'.ret}
  /\ watches'[op'.ret] = [wd |-> op'.ret, parent |-> 0, kids |-> <<>>, paths |-> <<P_rf>>]
  /\ \A w \in InTable(watches) : watches'[w] = watches[w]
  /\ op'.log = <<[path |-> P_rf, id |-> op'.ret]>>

C8_FileRoot == [][C8_Step]_vars

\* a recursive watch of the regular file registered its single node
C8_Witness ==
  /\ PlainWatchOf(op, P_rf)
  /\ op.ret > 0
  /\ watches[op.ret].paths = <<P_rf>>
  /\ watches[op.ret].kids = <<>>

(***************************************************************************)
(* C9 (as stated): in a recursive watch with declared mount points, every  *)
(* directory of the tree that is not at or below a mount point is          *)
(* registered, as it is without mount points; this includes a sibling of a *)
(* mount point whose name only starts with the mount point's name.         *)
(***************************************************************************)
C9_OnlyMountsSkipped ==
  (/\ op.name = "watch"
   /\ op.root = P_r
   /\ op.mounts # {}
   /\ op.faults = {}
   /\ op.staterr = ""
   /\ op.ret > 0)
  =>
  \A p \in DirsUnder(fs, P_r) :
    (\A m \in op.mounts : ~AtOrBelow(p, m)) => NodesOf(watches, p) # {}

(***************************************************************************)
(* SpecEvents: a recursive watch of /r, directories that appear below it   *)
(* afterwards, unwatch calls, and batches of directory create, delete and  *)
(* move events for the watched directories.                                *)
(***************************************************************************)
FS_noab == {P_r, P_ra, P_rac, P_rf}

DirHappenings ==
  { Happening(P_r, M_dirdelete, N_a),
    Happening(P_r, M_dirmovedfrom, N_ab),
    Happening(P_ra, M_dirdelete, N_c),
    Happening(P_rab, M_dirmovedfrom, N_c),
    Happening(P_r, M_dircreate, N_ab) }

WatchTree == DoWatch({P_r}, {{}}, {{}}, {""})
ProcessDirs == DoProcess(DirHappenings, {{}}, {FALSE})
MakeDirs == FsAdd({P_rab, P_rabc})

InitEvents == InitWith(FS_noab)

NextEvents == WatchTree \/ ProcessDirs \/ Unwatch \/ MakeDirs

SpecEvents == InitEvents /\ [][NextEvents]_vars

(***************************************************************************)
(* Spec: watch, unwatch and process_inotify_input calls in which the       *)
(* kernel may refuse a registration with ENOSPC.                           *)
(***************************************************************************)
QuotaFaults == FaultSets({P_ra, P_rab}, {"add_ENOSPC"}, MaxFaults)

QuotaHappenings ==
  { Happening(P_r, M_dircreate, N_a),
    Happening(P_r, M_dirmovedto, N_ab),
    Happening(P_r, M_dirdelete, N_a) }

WatchQuota == DoWatch({P_r, Flat(P_r)}, {{}}, QuotaFaults, {""})
ProcessQuota == DoProcess(QuotaHappenings, QuotaFaults, {FALSE, TRUE})

Init == InitWith(FS_plain)

Next == WatchQuota \/ ProcessQuota \/ Unwatch

Spec == Init /\ [][Next]_vars

(***************************************************************************)
(* More notions for the properties.                                        *)
(***************************************************************************)
\* the node k of table t and the nodes below it
RECURSIVE Subtree(_, _)
Subtree(t, k) ==
  {k} \cup UNION {Subtree(t, t[k].kids[i]) : i \in {j \in 1..Len(t[k].kids) : t[k].kids[j] # 0}}

\* the live entries of node w's child collection
KidsOf(t, w) == {t[w].kids[i] : i \in {j \in 1..Len(t[w].kids) : t[w].kids[j] # 0}}

\* the state of the process after the step
CurAfter == [watches |-> watches', kwd |-> kwd', nextWd |-> nextWd',
             limit_reached |-> limit_reached', msgs |-> msgs', nospc |-> nospc',
             crashed |-> crashed', cb |-> <<>>, log |-> <<>>]

\* the callbacks process_inotify_input issues in state S for the one event ev
CallbacksFor(S, ev) == process_inotify_input(S, fs, {}, dirorder, "crash", <<ev>>, FALSE).S.cb

IsDirDelete(ev) == ev.mask \in {M_dirdelete, M_dirmovedfrom}
IsDirCreate(ev) == ev.mask \in {M_dircreate, M_dirmovedto}

(***************************************************************************)
(* C1 (as stated): when process_inotify_input handles one directory delete *)
(* or move-out event for a child directory of a watched node (the child    *)
(* node has the one alias node-path/name), exactly the nodes of that       *)
(* child's subtree leave the table; every other node stays.                *)
(***************************************************************************)
C1_Deleted(t, ev) ==
  {k \in KidsOf(t, ev.wd) :
     \E i \in 1..Len(t[ev.wd].paths) : t[k].paths = <<join(t[ev.wd].paths[i], ev.name)>>}

C1_Step ==
  (/\ IsCall
   /\ op'.name = "process_inotify_input"
   /\ Len(op'.events) = 1
   /\ IsDirDelete(op'.events[1])
   /\ watches[op'.events[1].wd] # NULL
   /\ C1_Deleted(watches, op'.events[1]) # {}
   /\ ~crashed')
  =>
  InTable(watches') =
    InTable(watches) \ UNION {Subtree(watches, k) : k \in C1_Deleted(watches, op'.events[1])}

C1_ExactSubtreeRemoved == [][C1_Step]_vars

(***************************************************************************)
(* C4: when one directory create or move-in event is processed for a       *)
(* watched node with one alias, and the named subdirectory exists and is   *)
(* not watched yet, the call succeeds and the subdirectory has a new node  *)
(* whose parent is the event's node and that sits in the parent's child    *)
(* collection; an event with the new handle for a file f created in it     *)
(* then yields the callback for subdirectory-path/f.                       *)
(***************************************************************************)
C4_Step ==
  (/\ IsCall
   /\ op'.name = "process_inotify_input"
   /\ Len(op'.events) = 1
   /\ IsDirCreate(op'.events[1])
   /\ op'.faults = {}
   /\ watches[op'.events[1].wd] # NULL
   /\ Len(watches[op'.events[1].wd].paths) = 1
   /\ join(watches[op'.events[1].wd].paths[1], op'.events[1].name) \in fs
   /\ kwd[Inode(join(watches[op'.events[1].wd].paths[1], op'.events[1].name))] = 0)
  =>
  LET ev == op'.events[1]
      q == join(watches[ev.wd].paths[1], ev.name)
      k == kwd'[Inode(q)]
  IN /\ op'.ret = 1
     /\ k \in InTable(watches') \ InTable(watches)
     /\ watches'[k].wd = k
     /\ watches'[k].parent = ev.wd
     /\ watches'[k].paths = <<q>>
     /\ k \in KidsOf(watches', ev.wd)
     /\ CallbacksFor(CurAfter, [wd |-> k, mask |-> M_create, name |-> N_f])
          = <<[path |-> join(q, N_f), mask |-> M_create]>>

C4_NewSubdirRegistered == [][C4_Step]_vars

\* /r/ab, made after the recursive watch of /r, got its node from the create event
C4_Witness ==
  /\ op.name = "process_inotify_input"
  /\ op.events = <<[wd |-> 1, mask |-> M_dircreate, name |-> N_ab]>>
  /\ op.ret = 1
  /\ \E k \in InTable(watches) :
       /\ watches[k].paths = <<P_rab>>
       /\ watches[k].parent = 1
       /\ \A i \in 1..Len(op.log) : op.log[i].id = k => i = 1
       /\ op.log[1].id = k

(***************************************************************************)
(* C6 (as amended): a recursive watch of /r, with nothing watched before   *)
(* and /r/a/c and /r/ab/c hard links to one directory, leaves one node     *)
(* that carries both paths as its two aliases; unwatch of a handle whose   *)
(* node has two aliases removes the node, and an event with that handle    *)
(* then yields no callback.  A directory delete or move-out event for      *)
(* either of the two paths does not remove the node.                       *)
(***************************************************************************)
C6_Step ==
  /\ (/\ IsCall
      /\ PlainWatchOf(op', P_r)
      /\ {P_rac, P_rabc} \subseteq fs
      /\ InTable(watches) = {}
      /\ \A i \in Inodes : kwd[i] = 0)
     =>
     /\ op'.ret > 0
     /\ NodesOf(watches', P_rac) = {kwd'[Inode(P_rac)]}
     /\ NodesOf(watches', P_rabc) = {kwd'[Inode(P_rac)]}
     /\ Len(watches'[kwd'[Inode(P_rac)]].paths) = 2
  /\ (/\ IsCall
      /\ op'.name = "unwatch"
      /\ Len(watches[op'.wd].paths) = 2
      /\ watches[op'.wd].paths[1] # watches[op'.wd].paths[2])
     =>
     /\ watches'[op'.wd] = NULL
     /\ CallbacksFor(CurAfter, [wd |-> op'.wd, mask |-> M_create, name |-> N_f]) = <<>>
  /\ (/\ IsCall
      /\ op'.name = "process_inotify_input"
      /\ Len(op'.events) = 1
      /\ IsDirDelete(op'.events[1])
      /\ op'.events[1].name = N_c
      /\ NodesOf(watches, P_rac) # {}
      /\ NodesOf(watches, P_rac) = NodesOf(watches, P_rabc))
     =>
     /\ NodesOf(watches', P_rac) = NodesOf(watches, P_rac)
     /\ NodesOf(watches', P_rabc) = NodesOf(watches, P_rac)

C6_HardLinkNode == [][C6_Step]_vars

\* the node with the aliases /r/a/c and /r/ab/c was removed by unwatch
C6_Witness ==
  /\ op.name = "unwatch"
  /\ op.wd = kwd[Inode(P_r)] + 2
  /\ {P_rac, P_rabc} \subseteq fs
  /\ watches[op.wd] = NULL
  /\ InTable(watches) # {}
  /\ NodesOf(watches, P_rac) = {}
  /\ NodesOf(watches, P_rabc) = {}
  /\ NodesOf(watches, P_ra) # {}
  /\ NodesOf(watches, P_rab) # {}

\* C6 as stated: a removal triggered from either parent directory (a directory
\* delete or move-out event for /r/a/c or for /r/ab/c) removes the node of the
\* hard-linked directory
C6_OriginalStep ==
  (/\ IsCall
   /\ op'.name = "process_inotify_input"
   /\ Len(op'.events) = 1
   /\ IsDirDelete(op'.events[1])
   /\ op'.events[1].name = N_c
   /\ NodesOf(watches, P_rac) # {}
   /\ NodesOf(watches, P_rac) = NodesOf(watches, P_rabc))
  => NodesOf(watches', P_rac) = {}

C6_Original == [][C6_OriginalStep]_vars

(***************************************************************************)
(* C3: MSG_WATCH_LIMIT has been sent once if an add_watch has failed with  *)
(* ENOSPC so far, and not at all otherwise: it is sent in the call in      *)
(* which the first such failure happens and never again.                   *)
(***************************************************************************)
C3_LimitMessageOnce == msgs = IF nospc > 0 THEN 1 ELSE 0

\* a second registration has failed with ENOSPC
C3_Witness == nospc >= 2 /\ msgs = 1

(***************************************************************************)
(* C10: in every reachable state and for every handle h, unwatch(h) for a  *)
(* handle without a table entry changes nothing, and a second unwatch(h)   *)
(* leaves the state the first produced.                                    *)
(***************************************************************************)
C10_UnwatchIdempotent ==
  \A h \in 0..(MaxWd + 1) :
    LET once == unwatch(Cur, h) IN
    /\ unwatch(once, h) = once
    /\ table_get(watches, h) = NULL => once = Cur

\* unwatch removed a registered node, whose child went with it, and left others in the table
C10_Witness ==
  /\ op.name = "unwatch"
  /\ op.wd \in 1..(nextWd - 1)
  /\ watches[op.wd] = NULL
  /\ InTable(watches) # {}
  /\ Cardinality(InTable(watches)) + 2 = nextWd - 1

(***************************************************************************)
(* SpecAgain: watch calls for roots that may be watched already (the same  *)
(* root again, a root above a watched one), with failing registrations,    *)
(* and directory create events for directories that may be watched         *)
(* already.                                                                *)
(***************************************************************************)
AgainFaults == FaultSets({P_rab, P_rac}, {"add_ENOSPC", "add_EIO"}, MaxFaults)

AgainHappenings ==
  { Happening(P_r, M_dircreate, N_a),
    Happening(P_r, M_dirmovedto, N_ab),
    Happening(P_r, M_create, N_f),
    Happening(P_ra, M_deleteself, <<>>),
    Happening(P_r, M_dirdelete, N_a) }

\* watch of /r, of /r/a and of /r/a without descent
WatchAgain == DoWatch({P_r, P_ra, Flat(P_ra)}, {{}}, {{}}, {""})

\* watch("/r") with failing registrations below the root
WatchFailing == DoWatch({P_r}, {{}}, AgainFaults \ {{}}, {""})

ProcessAgain == DoProcess(AgainHappenings, AgainFaults, {FALSE})

InitAgain == \E fs0 \in {FS_plain, FS_link} : InitWith(fs0)

NextAgain == WatchAgain \/ WatchFailing \/ ProcessAgain \/ Unwatch

SpecAgain == InitAgain /\ [][NextAgain]_vars

\* the watch descriptors the kernel handed out for new watches during the step
NewWds == nextWd..(nextWd' - 1)

\* the call of the step ended with a fatal outcome of its walk: watch returned
\* Continue or Abort after its stat succeeded, or process_inotify_input
\* returned false after a directory create event
FatalWalk ==
  /\ IsCall
  /\ \/ op'.name = "watch" /\ op'.ret \in {ERR_CONTINUE, ERR_ABORT} /\ op'.log # <<>>
     \/ /\ op'.name = "process_inotify_input"
        /\ op'.ret = 0
        /\ \A i \in 1..Len(op'.events) : IsDirCreate(op'.events[i])

(***************************************************************************)
(* C11 (as stated): when the walk of a watch call or of a directory create *)
(* event ends with a fatal outcome, no kernel watch registered during the  *)
(* call is left: its descriptor is no longer a watch of the kernel and has *)
(* no entry in the watch table.                                            *)
(***************************************************************************)
C11_Step ==
  FatalWalk =>
    \A w \in NewWds :
      /\ watches'[w] = NULL
      /\ \A i \in Inodes : kwd'[i] # w

C11_NoLeakOnFailure == [][C11_Step]_vars

\* the alias paths of the node of handle w in table t, as a set
AliasPaths(t, w) == {t[w].paths[i] : i \in 1..Len(t[w].paths)}

\* the callback due for event ev and alias path p
CallbackOf(ev, p) ==
  [path |-> IF ev.name # <<>> THEN join(p, ev.name) ELSE p, mask |-> ev.mask]

\* the callbacks cbs are those due for event ev with the table t: none if the
\* handle of ev has no node, else one for each alias path of the node
OncePerAlias(cbs, t, ev) ==
  IF table_get(t, ev.wd) = NULL THEN cbs = <<>>
  ELSE /\ Len(cbs) = Cardinality(AliasPaths(t, ev.wd))
       /\ {cbs[i] : i \in 1..Len(cbs)} = {CallbackOf(ev, p) : p \in AliasPaths(t, ev.wd)}

\* the table after the first event of the batch of the step has been handled
TableAfterFirst ==
  process_inotify_input(Cur, fs, op'.faults, dirorder, "crash", <<op'.events[1]>>, FALSE).S.watches

\* the call of the step is a process_inotify_input that handled all its events
BatchDone ==
  /\ IsCall
  /\ op'.name = "process_inotify_input"
  /\ op'.ret = 1
  /\ ~crashed'

(***************************************************************************)
(* C12 (as stated): when process_inotify_input handles all the events of   *)
(* a batch, the callbacks it issues are, in the order of the events in the *)
(* buffer, those of each event whose handle has a node when the event is   *)
(* handled: exactly one callback for each alias path of the node, with the *)
(* alias path for a self-event and alias path/name otherwise, and the      *)
(* event's mask.                                                           *)
(***************************************************************************)
C12_Step ==
  BatchDone =>
    \E k \in 0..Len(op'.cb) :
      /\ OncePerAlias(SubSeq(op'.cb, 1, k), watches, op'.events[1])
      /\ IF Len(op'.events) = 1 THEN k = Len(op'.cb)
         ELSE OncePerAlias(SubSeq(op'.cb, k + 1, Len(op'.cb)), TableAfterFirst, op'.events[2])

C12_CallbackPerAlias == [][C12_Step]_vars

\* no alias path occurs twice in a node of table t
NoDoubleAlias(t) ==
  \A w \in InTable(t) : Cardinality(AliasPaths(t, w)) = Len(t[w].paths)

\* C12 for the calls in which no node has the same alias path twice
C12_DistinctStep == (NoDoubleAlias(watches) /\ NoDoubleAlias(watches')) => C12_Step

C12_DistinctAliases == [][C12_DistinctStep]_vars

\* the slots (from 1) of node p's child collection that hold w
SlotsOf(t, p, w) == {i \in 1..Len(t[p].kids) : t[p].kids[i] = w}

(***************************************************************************)
(* C13: after every call, each entry of a table node's child collection    *)
(* that is not a tombstone is a handle with a node in the table, stored    *)
(* under that handle and with this node as parent; and each table node     *)
(* with a parent has its parent in the table and sits in exactly one slot  *)
(* of the parent's child collection.                                       *)
(***************************************************************************)
C13_LinksConsistent ==
  \A w \in InTable(watches) :
    /\ watches[w].wd = w
    /\ \A i \in 1..Len(watches[w].kids) :
         watches[w].kids[i] # 0 =>
           /\ watches[w].kids[i] \in InTable(watches)
           /\ watches[watches[w].kids[i]].parent = w
    /\ watches[w].parent # 0 =>
         /\ watches[w].parent \in InTable(watches)
         /\ Cardinality(SlotsOf(watches, watches[w].parent, w)) = 1

\* a tree of three levels with a tombstone in the root's child collection,
\* left by a delete event or an unwatch, next to a live child
C13_Witness ==
  /\ ~crashed
  /\ \E w \in InTable(watches) :
       /\ \E i \in 1..Len(watches[w].kids) : watches[w].kids[i] = 0
       /\ \E k \in KidsOf(watches, w) : KidsOf(watches, k) # {}

\* the path a watch call registers for the root argument root: the root
\* without the leading '|'
RootPath(root) == IF root[1] = "|" THEN Tail(root) ELSE root

(***************************************************************************)
(* C14 (as stated): when a watch call registers a path whose handle        *)
(* already has a table node and the path has the real path of one of the   *)
(* node's aliases (it is that alias itself when the same root is watched   *)
(* again), the registration yields Ignore and the node's aliases are what  *)
(* they were.                                                              *)
(***************************************************************************)
C14_Step ==
  (/\ IsCall
   /\ op'.name = "watch"
   /\ op'.faults = {}
   /\ op'.staterr = ""
   /\ RootPath(op'.root) \in fs
   /\ kwd[Inode(RootPath(op'.root))] \in InTable(watches)
   /\ \E p \in AliasPaths(watches, kwd[Inode(RootPath(op'.root))]) :
        realpath(fs, p) = realpath(fs, RootPath(op'.root)))
  =>
  /\ op'.log[1] = [path |-> RootPath(op'.root), id |-> ERR_IGNORE]
  /\ watches'[kwd[Inode(RootPath(op'.root))]].paths
       = watches[kwd[Inode(RootPath(op'.root))]].paths

C14_SamePathIgnored == [][C14_Step]_vars

(***************************************************************************)
(* C15 (as stated): in every reachable state each node of the watch table  *)
(* has at least one alias and no path twice among its aliases.             *)
(***************************************************************************)
C15_AliasesAreSet ==
  \A w \in InTable(watches) :
    /\ watches[w].paths # <<>>
    /\ Cardinality(AliasPaths(watches, w)) = Len(watches[w].paths)

\* the state of the process when the last event of the batch of the step is
\* handled: the state before the call, or the state after the events before
\* the last one (when the process is still running, a read of a cleared slot
\* among those events was skipped)
BeforeLast ==
  IF Len(op'.events) = 1 THEN Cur
  ELSE process_inotify_input(Cur, fs, op'.faults, dirorder, "skip",
                             SubSeq(op'.events, 1, Len(op'.events) - 1), FALSE).S

\* the last event of the batch of the step
LastEvent == op'.events[Len(op'.events)]

\* in table t the child collection of the node of event ev has a tombstone in
\* a slot before the slot of the live child k, which has the single alias
\* node-path/name
BehindTombstone(t, ev, k) ==
  /\ table_get(t, ev.wd) # NULL
  /\ Len(t[ev.wd].paths) = 1
  /\ k \in KidsOf(t, ev.wd)
  /\ t[k].paths = <<join(t[ev.wd].paths[1], ev.name)>>
  /\ \E i \in 1..Len(t[ev.wd].kids) :
       /\ t[ev.wd].kids[i] = 0
       /\ \A j \in SlotsOf(t, ev.wd, k) : i < j

(***************************************************************************)
(* C16 (as stated): when a directory delete or move-out event is handled   *)
(* for a node whose child collection has a tombstone (left by an earlier   *)
(* delete event, an unwatch or a failed walk) before the slot of the       *)
(* matching live child, the tombstone is passed over without being         *)
(* accessed (the process goes on) and the matching child is removed.       *)
(***************************************************************************)
C16_Step ==
  (/\ IsCall
   /\ op'.name = "process_inotify_input"
   /\ op'.events # <<>>
   /\ IsDirDelete(LastEvent)
   /\ ~BeforeLast.crashed)
  =>
  \A k \in Wds :
    BehindTombstone(BeforeLast.watches, LastEvent, k) =>
      /\ ~crashed'
      /\ watches'[k] = NULL

C16_TombstonesSkipped == [][C16_Step]_vars

(***************************************************************************)
(* SpecCreate: watch calls for /r, with and without descent, and batches   *)
(* of create and delete events for the directory /r/a during which the     *)
(* registrations of /r/a and /r/a/c may fail with ENOSPC (Continue) or EIO *)
(* (Abort).                                                                *)
(***************************************************************************)
CreateFaults == FaultSets({P_ra, P_rac}, {"add_ENOSPC", "add_EIO"}, MaxFaults)

CreateHappenings ==
  { Happening(P_r, M_dircreate, N_a),
    Happening(P_r, M_dirdelete, N_a) }

WatchRoot == DoWatch({P_r, Flat(P_r)}, {{}}, {{}}, {""})

ProcessCreate == DoProcess(CreateHappenings, CreateFaults, {FALSE})

InitCreate == InitWith(FS_plain)

NextCreate == WatchRoot \/ ProcessCreate \/ Unwatch

SpecCreate == InitCreate /\ [][NextCreate]_vars

\* the call of the step is a process_inotify_input whose events are all
\* create or move-in events that carry the handle of a node with one alias
OnSingleAlias ==
  /\ IsCall
  /\ op'.name = "process_inotify_input"
  /\ \A i \in 1..Len(op'.events) :
       /\ op'.events[i].mask \in {M_dircreate, M_dirmovedto, M_create}
       /\ table_get(watches, op'.events[i].wd) # NULL
       /\ Len(watches[op'.events[i].wd].paths) = 1

\* the callback due for event i of the batch of the step
DueCallback(i) == CallbackOf(op'.events[i], watches[op'.events[i].wd].paths[1])

\* a registration of the call of the step ended with Abort
Aborted == \E i \in 1..Len(op'.log) : op'.log[i].id = ERR_ABORT

(***************************************************************************)
(* C17 (as amended): when the walk started by a directory create or        *)
(* move-in event returns Abort, process_inotify_input handles no further   *)
(* event of the batch and returns false, and the event's node stays in the *)
(* watch table (with the children it had that the walk did not touch);     *)
(* the registration that failed is the last one of the call.  When the     *)
(* walks return Ignore, Continue or a handle, every event of the batch is  *)
(* handled and process_inotify_input returns true.                         *)
(***************************************************************************)
C17_Step ==
  OnSingleAlias =>
    /\ Aborted =>
         /\ op'.ret = 0
         /\ op'.log[Len(op'.log)].id = ERR_ABORT
         /\ Len(op'.cb) \in 1..Len(op'.events)
         /\ IsDirCreate(op'.events[Len(op'.cb)])
         /\ AtOrBelow(op'.log[Len(op'.log)].path, DueCallback(Len(op'.cb)).path)
         /\ \A i \in 1..Len(op'.cb) :
              /\ op'.cb[i] = DueCallback(i)
              /\ watches'[op'.events[i].wd] # NULL
              /\ watches'[op'.events[i].wd].paths = watches[op'.events[i].wd].paths
    /\ ~Aborted =>
         /\ op'.ret = 1
         /\ Len(op'.cb) = Len(op'.events)
         /\ \A i \in 1..Len(op'.cb) : op'.cb[i] = DueCallback(i)

C17_AbortStopsBatch == [][C17_Step]_vars

\* a batch of two events whose first, a directory create, met Abort below
\* the new directory: one callback, false returned, the event's node in the table
C17_Witness ==
  /\ op.name = "process_inotify_input"
  /\ Len(op.events) = 2
  /\ Len(op.cb) = 1
  /\ op.ret = 0
  /\ Len(op.log) = 2
  /\ op.log[2].id = ERR_ABORT
  /\ watches[op.events[1].wd] # NULL

\* C17 as stated: after a fatal outcome of the walk of a create event the
\* event's node has been removed from the watch table
C17_Original ==
  (op.name = "process_inotify_input" /\ op.ret = 0 /\ ~crashed /\ op.events # <<>>) =>
    \A i \in 1..Len(op.cb) :
      (i = Len(op.cb) /\ IsDirCreate(op.events[i])) => watches[op.events[i].wd] = NULL

\* in table t the live child k of the node of event ev has more than one
\* alias, one of them an alias of the node joined with the event's name
ManyAliasChild(t, ev, k) ==
  /\ table_get(t, ev.wd) # NULL
  /\ k \in KidsOf(t, ev.wd)
  /\ Len(t[k].paths) > 1
  /\ \E p \in AliasPaths(t, ev.wd) : join(p, ev.name) \in AliasPaths(t, k)

\* every many-alias child that event ev names in table t is in table t2 as
\* it was in t, and is a child of the node of ev in t2
ManyAliasKept(t, ev, t2) ==
  \A k \in Wds :
    ManyAliasChild(t, ev, k) =>
      /\ t2[k] = t[k]
      /\ k \in KidsOf(t2, ev.wd)

(***************************************************************************)
(* C18: when a directory delete or move-out event names a child of its     *)
(* node that has more than one alias, the child is not removed: after the  *)
(* call it is in the watch table as it was, with all its aliases, and it   *)
(* is in the child collection of its parent.                               *)
(***************************************************************************)
C18_Step ==
  (/\ IsCall
   /\ op'.name = "process_inotify_input"
   /\ op'.events # <<>>
   /\ ~crashed'
   /\ IsDirDelete(LastEvent))
  =>
  \A t \in {BeforeLast.watches} : ManyAliasKept(t, LastEvent, watches')

C18_ManyAliasChildKept == [][C18_Step]_vars

\* a delete event for /r/a/c was handled while the node of /r/a/c, a child
\* of /r/a, also had the alias /r/ab/c, and the node is still there
C18_Witness ==
  /\ op.name = "process_inotify_input"
  /\ op.ret = 1
  /\ Len(op.events) = 1
  /\ IsDirDelete(op.events[1])
  /\ op.events[1].name = N_c
  /\ op.cb = <<[path |-> P_rac, mask |-> op.events[1].mask]>>
  /\ \E k \in KidsOf(watches, op.events[1].wd) : AliasPaths(watches, k) = {P_rac, P_rabc}

(***************************************************************************)
(* SpecSkip: watch("/r") and batches in which events flagged IN_IGNORED or *)
(* IN_Q_OVERFLOW, and events for /r/a queued after the event that removes  *)
(* its node, stand before and after ordinary events; the registration of   *)
(* /r/ab may fail.  The overflow event carries the descriptor of /r in the *)
(* model (the kernel sends -1); the code does not read it.                 *)
(***************************************************************************)
SkipFaults == FaultSets({P_rab}, {"add_EIO"}, MaxFaults)

SkipHappenings ==
  { Happening(P_r, M_dirdelete, N_a),
    Happening(P_ra, M_dircreate, N_c),
    Happening(P_ra, M_ignored, <<>>),
    Happening(P_r, M_overflow, <<>>),
    Happening(P_r, M_dircreate, N_ab) }

ProcessSkip == DoProcess(SkipHappenings, SkipFaults, {FALSE})

InitSkip == InitWith(FS_plain)

NextSkip == WatchRoot \/ ProcessSkip

SpecSkip == InitSkip /\ [][NextSkip]_vars

\* event ev is passed over in table t: it is flagged ignored or overflow, or
\* its descriptor has no entry in t
PassedOver(t, ev) ==
  \/ "IN_IGNORED" \in ev.mask
  \/ "IN_Q_OVERFLOW" \in ev.mask
  \/ table_get(t, ev.wd) = NULL

\* the outcome of the events of the batch of the step that stand before
\* event i, and the outcome of the events that stand after it when they are
\* handled in state S
EventsBefore(i) ==
  process_inotify_input(Cur, fs, op'.faults, dirorder, "skip", SubSeq(op'.events, 1, i - 1), FALSE)

EventsAfter(S, i) ==
  process_inotify_input(S, fs, op'.faults, dirorder, "skip",
                        SubSeq(op'.events, i + 1, Len(op'.events)), FALSE)

\* the step ends as outcome r: its table, its callbacks and its result
EndsAs(r) ==
  /\ watches' = r.S.watches
  /\ op'.cb = r.S.cb
  /\ op'.ret = IF r.ok THEN 1 ELSE 0

\* pre is the outcome of the events before event i: when event i is reached
\* and is passed over, the step ends as the events after i end from pre
PassedOverAt(pre, i) ==
  (pre.ok /\ PassedOver(pre.S.watches, op'.events[i])) =>
    EndsAs(EventsAfter(pre.S, i))

(***************************************************************************)
(* C19: an event flagged ignored or queue-overflow, and an event whose     *)
(* descriptor has no entry in the watch table when it is reached, produces *)
(* no callback and leaves the table unchanged, and it does not stop the    *)
(* batch: the call ends with the table, the callbacks and the result of    *)
(* the events after it, handled from the state the events before it left;  *)
(* as the last event of a batch it leaves that state and the call returns  *)
(* true.                                                                   *)
(***************************************************************************)
C19_Step ==
  (/\ IsCall
   /\ op'.name = "process_inotify_input"
   /\ ~crashed')
  =>
  \A i \in 1..Len(op'.events) :
    /\ \A pre \in {EventsBefore(i)} : PassedOverAt(pre, i)
    /\ i = Len(op'.events) =>
         \A pre \in {EventsBefore(i)} :
           (pre.ok /\ PassedOver(pre.S.watches, op'.events[i])) =>
             /\ watches' = pre.S.watches
             /\ op'.cb = pre.S.cb
             /\ op'.ret = 1

C19_PassedOver == [][C19_Step]_vars

\* a batch was handled in which the delete event for /r/a removed its node,
\* the next event carried the descriptor of /r/a, and the call returned true
\* with the single callback of the delete event
C19_Witness ==
  /\ op.name = "process_inotify_input"
  /\ op.ret = 1
  /\ Len(op.events) = 2
  /\ op.events[1].mask = M_dirdelete
  /\ op.events[2].mask = M_dircreate
  /\ op.events[2].name = N_c
  /\ table_get(watches, op.events[2].wd) = NULL
  /\ op.cb = <<[path |-> P_ra, mask |-> M_dirdelete]>>

\* the node of handle w is in table t2 as it is in table t: same parent,
\* same live children, same alias paths
SameNode(t, t2, w) ==
  /\ t2[w] # NULL
  /\ t2[w].parent = t[w].parent
  /\ KidsOf(t2, w) = KidsOf(t, w)
  /\ AliasPaths(t2, w) = AliasPaths(t, w)

(***************************************************************************)
(* C20 (as stated): a watch call that returns Abort or Continue leaves     *)
(* every node that was in the watch table before the call in the table,    *)
(* with the same parent, children and aliases.                             *)
(***************************************************************************)
C20_Step ==
  (/\ IsCall
   /\ op'.name = "watch"
   /\ op'.ret \in {ERR_CONTINUE, ERR_ABORT})
  =>
  \A w \in Wds : watches[w] # NULL => SameNode(watches, watches', w)

C20_EarlierNodesKept == [][C20_Step]_vars

====
